---------------------------- MODULE Spec2Model ----------------------------
(***************************************************************************)
(* A model of the Remote Media Player JSON-RPC client                      *)
(* (custom_components/remote_media_player/api.py) and of the reference     *)
(* peer (scripts/dummy_server.py).                                         *)
(*                                                                         *)
(* Atomicity follows asyncio: a coroutine runs without interruption from   *)
(* one await that suspends to the next, so every action below is the code  *)
(* between two suspension points.                                          *)
(***************************************************************************)
EXTENDS Integers, Sequences, FiniteSets, TLC

(***************************************************************************)
(* Bounds of the model.                                                    *)
(***************************************************************************)
NumCallers == 2
MaxConns == 2
MaxFrames == 2

Callers == 1..NumCallers
Conns == 1..MaxConns
Ids == 1..(NumCallers + 1)
Handlers == 1..2

None == 0

Min(a, b) == IF a < b THEN a ELSE b

(***************************************************************************)
(* Requests of the facade: method plus the params mapping it constructs.   *)
(* Levels and positions are floats in the code; the model uses a few       *)
(* sample values.  keys is the set of keys the params mapping holds.       *)
(***************************************************************************)
NoArg == [keys |-> {}, url |-> "", level |-> 0, position |-> 0, media_type |-> "",
          startPosition |-> 0, autoplay |-> "", options |-> FALSE]

Req(m, a) == [method |-> m, args |-> a]

play == Req("play", NoArg)
pause == Req("pause", NoArg)
stop == Req("stop", NoArg)
get_state == Req("getState", NoArg)
get_supported_media_types == Req("getSupportedMediaTypes", NoArg)
set_volume(level) == Req("setVolume", [NoArg EXCEPT !.keys = {"level"}, !.level = level])
seek(position) == Req("seek", [NoArg EXCEPT !.keys = {"position"}, !.position = position])
load(url, options) ==
    Req("load",
        IF options.given
        THEN [NoArg EXCEPT !.keys = {"url", "options"}, !.url = url, !.options = TRUE,
                           !.media_type = options.media_type,
                           !.startPosition = options.startPosition,
                           !.autoplay = options.autoplay]
        ELSE [NoArg EXCEPT !.keys = {"url"}, !.url = url])

NoOptions == [given |-> FALSE, media_type |-> "", startPosition |-> 0, autoplay |-> ""]
PausedMusic == [given |-> TRUE, media_type |-> "music", startPosition |-> 150,
                autoplay |-> "false"]

FacadeRequests ==
    {play, pause, stop, get_state, get_supported_media_types,
     set_volume(3), seek(150), load("u1", NoOptions), load("u1", PausedMusic)}


(***************************************************************************)
(* JSON values carried by frames.  A player-state snapshot is opaque to    *)
(* the client; a result is true, a list of strings, an object, or the      *)
(* empty object that data.get("result", {}) defaults to.                   *)
(***************************************************************************)
Duration == 300

Snapshot(state, url, media_type, position, volume) ==
    [state |-> state, url |-> url, media_type |-> media_type,
     position |-> position, duration |-> Duration, volume |-> volume]

NoSnap == Snapshot("", "", "", 0, 0)

JTrue == [kind |-> "bool", items |-> <<"true">>, snap |-> NoSnap]
JList(items) == [kind |-> "list", items |-> items, snap |-> NoSnap]
JObj(snap) == [kind |-> "obj", items |-> <<>>, snap |-> snap]
EmptyObj == [kind |-> "obj", items |-> <<>>, snap |-> NoSnap]

(* The params object of a notification: a snapshot, or {"message": ...}.   *)
StateParams(snap) == [snap |-> snap, keys |-> {"state", "media", "volume"}, message |-> ""]
MessageParams(message) == [snap |-> NoSnap, keys |-> {"message"}, message |-> message]
EmptyParams == [snap |-> NoSnap, keys |-> {}, message |-> ""]

(***************************************************************************)
(* Inbound transport frames, before decoding.                              *)
(*   enc     "text", "bytes" (valid UTF-8) or "badbytes" (not UTF-8)       *)
(*   json    what json.loads yields: "invalid" (raises), or the type of    *)
(*           the value: "num", "null", "str", "list", "obj"                *)
(*   has     the strings x for which the Python test  x in data  is true   *)
(*           (keys of an object, elements of a list, substrings of a str)  *)
(*   idt/id  type and value of data["id"]: "int", "str" or "list"          *)
(*   errt    type of data["error"]: "obj" (code and message), "nomsg"      *)
(*           (an object without message) or "str"                          *)
(***************************************************************************)
BaseFrame ==
    [enc |-> "text", json |-> "obj", has |-> {}, idt |-> "int", id |-> 0,
     result |-> EmptyObj, errt |-> "obj", code |-> 0, message |-> "",
     method |-> "", params |-> EmptyParams]

Response(id, result) ==
    [BaseFrame EXCEPT !.has = {"jsonrpc", "result", "id"}, !.id = id, !.result = result]

ErrorResponse(id, code, message) ==
    [BaseFrame EXCEPT !.has = {"jsonrpc", "error", "id"}, !.id = id,
                      !.code = code, !.message = message]

Notification(method, params) ==
    [BaseFrame EXCEPT !.has = {"jsonrpc", "method", "params"}, !.method = method,
                      !.params = params]

AsBytes(frame) == [frame EXCEPT !.enc = "bytes"]

BadBytes == [BaseFrame EXCEPT !.enc = "badbytes", !.json = "invalid"]
NotJson == [BaseFrame EXCEPT !.json = "invalid"]
JsonNumber == [BaseFrame EXCEPT !.json = "num"]
JsonNull == [BaseFrame EXCEPT !.json = "null"]
JsonString(has) == [BaseFrame EXCEPT !.json = "str", !.has = has]
JsonList(has) == [BaseFrame EXCEPT !.json = "list", !.has = has]
BareObject == [BaseFrame EXCEPT !.has = {"jsonrpc"}]
IdOnly(id) == [BaseFrame EXCEPT !.has = {"jsonrpc", "id"}, !.id = id]
ErrorNoMessage(id) ==
    [BaseFrame EXCEPT !.has = {"jsonrpc", "error", "id"}, !.id = id, !.errt = "nomsg"]
NoParams(method) == [BaseFrame EXCEPT !.has = {"jsonrpc", "method"}, !.method = method]

(***************************************************************************)
(* _handle_message, api.py lines 86-116, as a function of the frame and    *)
(* of the fields it reads.  The result says which exception left the try   *)
(* body ("none" when it completed; "TypeError" is caught by none of the    *)
(* except clauses and leaves the method), which registry entry was popped, *)
(* how its future was resolved and which callback was invoked.             *)
(***************************************************************************)
NoEffect ==
    [exc |-> "none", popped |-> None, resolve |-> "none", value |-> EmptyObj,
     text |-> "", cb |-> "none", arg |-> EmptyParams]

Raise(exc, effect) == [effect EXCEPT !.exc = exc]

(* A variant that reports a Response whose id is not tracked to the error  *)
(* handler instead of ignoring it.                                         *)
HandleResponse_ReportsUntracked(data, futures) ==
    IF data.json # "obj" THEN Raise("TypeError", NoEffect)
    ELSE IF data.idt = "list" THEN Raise("TypeError", NoEffect)
    ELSE IF data.idt # "int" THEN NoEffect
    ELSE IF data.id \notin futures
    THEN [NoEffect EXCEPT !.cb = "error", !.text = "unknown id"]
    ELSE LET popped == [NoEffect EXCEPT !.popped = data.id]
         IN  IF "error" \in data.has
             THEN CASE data.errt = "obj" ->
                          [popped EXCEPT !.resolve = "exception", !.text = data.message]
                    [] data.errt = "nomsg" -> Raise("KeyError", popped)
                    [] OTHER -> Raise("TypeError", popped)
             ELSE [popped EXCEPT !.resolve = "result",
                                 !.value = IF "result" \in data.has THEN data.result
                                           ELSE EmptyObj]

(* A variant that resolves some tracked future when the frame's id is not  *)
(* tracked, instead of ignoring the frame.                                 *)
HandleResponse_AnyTracked(data, futures) ==
    IF data.json # "obj" THEN Raise("TypeError", NoEffect)
    ELSE IF data.idt = "list" THEN Raise("TypeError", NoEffect)
    ELSE IF data.idt # "int" \/ futures = {} THEN NoEffect
    ELSE LET id == IF data.id \in futures THEN data.id
                   ELSE CHOOSE i \in futures : TRUE
             popped == [NoEffect EXCEPT !.popped = id]
         IN  IF "error" \in data.has
             THEN CASE data.errt = "obj" ->
                          [popped EXCEPT !.resolve = "exception", !.text = data.message]
                    [] data.errt = "nomsg" -> Raise("KeyError", popped)
                    [] OTHER -> Raise("TypeError", popped)
             ELSE [popped EXCEPT !.resolve = "result",
                                 !.value = IF "result" \in data.has THEN data.result
                                           ELSE EmptyObj]

HandleResponse(data, futures) ==
    IF data.json # "obj" THEN Raise("TypeError", NoEffect)        \* data["id"] on str/list
    ELSE IF data.idt = "list" THEN Raise("TypeError", NoEffect)   \* unhashable key
    ELSE IF data.idt # "int" \/ data.id \notin futures THEN NoEffect
    ELSE LET popped == [NoEffect EXCEPT !.popped = data.id]
         IN  IF "error" \in data.has
             THEN CASE data.errt = "obj" ->
                          [popped EXCEPT !.resolve = "exception", !.text = data.message]
                    [] data.errt = "nomsg" -> Raise("KeyError", popped)
                    [] OTHER -> Raise("TypeError", popped)
             ELSE [popped EXCEPT !.resolve = "result",
                                 !.value = IF "result" \in data.has THEN data.result
                                           ELSE EmptyObj]

(* A variant that reports a notification of an unknown method to the error *)
(* handler.                                                                *)
HandleNotification_ReportsUnknown(data, stateCb, errorCb) ==
    IF data.method = "stateChanged" /\ stateCb # None
    THEN IF "params" \in data.has
         THEN [NoEffect EXCEPT !.cb = "state", !.arg = data.params]
         ELSE Raise("KeyError", NoEffect)
    ELSE IF data.method = "error" /\ errorCb # None
    THEN IF "params" \in data.has /\ "message" \in data.params.keys
         THEN [NoEffect EXCEPT !.cb = "error", !.text = data.params.message]
         ELSE Raise("KeyError", NoEffect)
    ELSE IF data.method \notin {"stateChanged", "error"} /\ errorCb # None
    THEN [NoEffect EXCEPT !.cb = "error", !.text = "unknown method"]
    ELSE NoEffect

(* A variant that hands the state handler an empty params object.          *)
HandleNotification_EmptyParams(data, stateCb, errorCb) ==
    IF data.method = "stateChanged" /\ stateCb # None
    THEN IF "params" \in data.has
         THEN [NoEffect EXCEPT !.cb = "state", !.arg = EmptyParams]
         ELSE Raise("KeyError", NoEffect)
    ELSE IF data.method = "error" /\ errorCb # None
    THEN IF "params" \in data.has /\ "message" \in data.params.keys
         THEN [NoEffect EXCEPT !.cb = "error", !.text = data.params.message]
         ELSE Raise("KeyError", NoEffect)
    ELSE NoEffect

HandleNotification(data, stateCb, errorCb) ==
    IF data.method = "stateChanged" /\ stateCb # None
    THEN IF "params" \in data.has
         THEN [NoEffect EXCEPT !.cb = "state", !.arg = data.params]
         ELSE Raise("KeyError", NoEffect)
    ELSE IF data.method = "error" /\ errorCb # None
    THEN IF "params" \in data.has /\ "message" \in data.params.keys
         THEN [NoEffect EXCEPT !.cb = "error", !.text = data.params.message]
         ELSE Raise("KeyError", NoEffect)
    ELSE NoEffect

HandleMessage(message, futures, stateCb, errorCb) ==
    IF message.enc = "badbytes" THEN Raise("UnicodeDecodeError", NoEffect)
    ELSE IF message.json = "invalid" THEN Raise("JSONDecodeError", NoEffect)
    ELSE IF message.json \in {"num", "null"} THEN Raise("TypeError", NoEffect)
    ELSE IF "id" \in message.has THEN HandleResponse(message, futures)
    ELSE IF "method" \in message.has
    THEN IF message.json # "obj" THEN Raise("TypeError", NoEffect)
         ELSE HandleNotification(message, stateCb, errorCb)
    ELSE NoEffect

(* The exceptions _handle_message catches and logs (lines 111-116).        *)
Caught == {"JSONDecodeError", "KeyError", "UnicodeDecodeError"}


(***************************************************************************)
(* State.                                                                  *)
(*   RemoteMediaPlayerClient fields (api.py lines 35-42):                  *)
(*     websocket, message_id, state_callback, error_callback, task,        *)
(*     lock + lockWaiters (the asyncio.Lock and its FIFO of waiters),      *)
(*     response_futures (id -> the caller whose future it holds)           *)
(*   connections ever opened by connect(), numbered 1..numConns:           *)
(*     transport[c]  "none", "open", "closedOK" / "closedError" (closed by *)
(*                   the peer, cleanly or not), "closed" (closed locally)  *)
(*     listen[c]     the _listen task created for c: "none", "running",    *)
(*                   "done" (returned) or "cancelled"                     *)
(*     inbox[c]      frames written by the peer and not yet read           *)
(*     outbox[c]     request frames the client has written, in order       *)
(*   connecting      connect() invocations suspended in the handshake      *)
(*   calls[p]        the _send_command invocation of caller p              *)
(*   dpc             where the disconnect() invocation is suspended        *)
(*   stateCalls, errorCalls   invocations of the two callbacks, in order   *)
(*   doomed          history: the callers whose call was awaiting the lock *)
(*                   or its future when a disconnect() was invoked         *)
(*   reusedFrom      history: the number of connections that had been      *)
(*                   opened when connect() was first invoked after a       *)
(*                   disconnect() had returned (None before that)          *)
(***************************************************************************)
VARIABLES websocket, task, message_id, state_callback, error_callback,
          lock, lockWaiters, response_futures,
          transport, listen, inbox, outbox, numConns, connecting,
          calls, dpc, stateCalls, errorCalls, framesSent,
          player, served, doomed, reusedFrom

vars == <<websocket, task, message_id, state_callback, error_callback,
          lock, lockWaiters, response_futures,
          transport, listen, inbox, outbox, numConns, connecting,
          calls, dpc, stateCalls, errorCalls, framesSent,
          player, served, doomed, reusedFrom>>

clientFields == <<websocket, task, message_id, state_callback, error_callback>>
lockVars == <<lock, lockWaiters>>
connVars == <<transport, listen, inbox, outbox, numConns, connecting>>
peerVars == <<player, served, framesSent>>
callbackLogs == <<stateCalls, errorCalls>>
history == <<doomed, reusedFrom>>

NoCall ==
    [pc |-> "idle", request |-> play, msg_id |-> None, fut |-> "none",
     value |-> EmptyObj, text |-> "", outcome |-> "none"]

(* DummyMediaPlayer.__init__, dummy_server.py lines 20-31.                 *)
NewPlayer ==
    [state |-> "idle", position |-> 0, volume |-> 5, media_url |-> "",
     media_type |-> ""]

Init ==
    /\ websocket = None
    /\ task = None
    /\ message_id = 0
    /\ state_callback = None
    /\ error_callback = None
    /\ lock = None
    /\ lockWaiters = <<>>
    /\ response_futures = <<>>
    /\ transport = [c \in Conns |-> "none"]
    /\ listen = [c \in Conns |-> "none"]
    /\ inbox = [c \in Conns |-> <<>>]
    /\ outbox = [c \in Conns |-> <<>>]
    /\ numConns = 0
    /\ connecting = 0
    /\ calls = [p \in Callers |-> NoCall]
    /\ dpc = "idle"
    /\ stateCalls = <<>>
    /\ errorCalls = <<>>
    /\ framesSent = 0
    /\ player = [c \in Conns |-> NewPlayer]
    /\ served = [c \in Conns |-> 0]
    /\ doomed = {}
    /\ reusedFrom = None

(***************************************************************************)
(* The registry as a function from the tracked ids to the owning caller.   *)
(***************************************************************************)
Tracked == DOMAIN response_futures

Register(futures, id, p) ==
    [i \in (DOMAIN futures) \cup {id} |-> IF i = id THEN p ELSE futures[i]]

Pop(futures, id) == [i \in (DOMAIN futures) \ {id} |-> futures[i]]

(***************************************************************************)
(* set_state_callback / set_error_callback, api.py lines 78-84.            *)
(***************************************************************************)
SetStateCallback(h) ==
    /\ h = state_callback + 1
    /\ state_callback' = h
    /\ UNCHANGED history
    /\ UNCHANGED <<websocket, task, message_id, error_callback, lockVars,
                   response_futures, connVars, calls, dpc,
                   callbackLogs, peerVars>>

SetErrorCallback(h) ==
    /\ h = error_callback + 1
    /\ error_callback' = h
    /\ UNCHANGED history
    /\ UNCHANGED <<websocket, task, message_id, state_callback, lockVars,
                   response_futures, connVars, calls, dpc,
                   callbackLogs, peerVars>>

(***************************************************************************)
(* connect(), api.py lines 44-58.  The handshake (line 50) suspends; the   *)
(* assignment of _websocket and the creation of the _listen task follow    *)
(* its completion without another suspension.                              *)
(***************************************************************************)
ConnectNoop ==
    /\ websocket # None
    /\ UNCHANGED history
    /\ UNCHANGED <<clientFields, lockVars, response_futures, connVars, calls,
                   dpc, callbackLogs, peerVars>>

(* A disconnect() that closed a transport has returned and no connect()    *)
(* has been invoked since.                                                 *)
Disconnected ==
    /\ websocket = None /\ dpc = "idle" /\ connecting = 0
    /\ \E c \in 1..numConns : transport[c] = "closed"

(* A variant without the check of lines 46-47.                             *)
ConnectBegin_Unchecked(limit) ==
    /\ numConns + connecting < limit
    /\ connecting' = connecting + 1
    /\ reusedFrom' = IF reusedFrom = None /\ Disconnected THEN numConns ELSE reusedFrom
    /\ UNCHANGED doomed
    /\ UNCHANGED <<clientFields, lockVars, response_futures, transport, listen,
                   inbox, outbox, numConns, calls, dpc,
                   callbackLogs, peerVars>>

ConnectBegin(limit) ==
    /\ websocket = None
    /\ numConns + connecting < limit
    /\ connecting' = connecting + 1
    /\ reusedFrom' = IF reusedFrom = None /\ Disconnected THEN numConns ELSE reusedFrom
    /\ UNCHANGED doomed
    /\ UNCHANGED <<clientFields, lockVars, response_futures, transport, listen,
                   inbox, outbox, numConns, calls, dpc,
                   callbackLogs, peerVars>>

ConnectDone ==
    /\ connecting > 0
    /\ LET c == numConns + 1
       IN  /\ websocket' = c
           /\ task' = c
           /\ transport' = [transport EXCEPT ![c] = "open"]
           /\ listen' = [listen EXCEPT ![c] = "running"]
           /\ numConns' = c
    /\ connecting' = connecting - 1
    /\ UNCHANGED history
    /\ UNCHANGED <<message_id, state_callback, error_callback, lockVars,
                   response_futures, inbox, outbox, calls, dpc,
                   callbackLogs, peerVars>>

ConnectFail ==
    /\ connecting > 0
    /\ connecting' = connecting - 1
    /\ UNCHANGED history
    /\ UNCHANGED <<clientFields, lockVars, response_futures, transport, listen,
                   inbox, outbox, numConns, calls, dpc,
                   callbackLogs, peerVars>>


(***************************************************************************)
(* _send_command, api.py lines 134-167.                                    *)
(*                                                                         *)
(* Lines 138-140 run when the call is invoked.  "async with self._lock"    *)
(* takes a free lock without suspending and otherwise queues the caller;   *)
(* lines 143-158 then run without suspension up to the write of the frame, *)
(* and the caller suspends in wait_for (line 159) holding the lock.        *)
(***************************************************************************)
(* A variant that hands out the first id again and again.                  *)
NextId_Reused(id) == IF id = 0 THEN 1 ELSE id

(* A variant that derives the id from the number of tracked calls.         *)
NextId_FromRegistry(id) == Cardinality(Tracked) + 1

NextId(id) == id + 1

Request(id, request) == [id |-> id, method |-> request.method, args |-> request.args]

Finish(call, outcome) == [call EXCEPT !.pc = "done", !.outcome = outcome]

(* A variant that releases the lock once the frame is written, before the *)
(* response is awaited.                                                    *)
Issue_UnlockedWait(p, request) ==
    LET id == NextId(message_id)
        call == [calls[p] EXCEPT !.request = request, !.msg_id = id, !.fut = "pending"]
    IN  /\ message_id' = id
        /\ IF websocket = None
           THEN \* self._websocket.send on None: AttributeError, caught by no clause
                /\ response_futures' = Register(response_futures, id, p)
                /\ calls' = [calls EXCEPT ![p] = Finish(call, "AttributeError")]
                /\ lock' = None
                /\ UNCHANGED outbox
           ELSE IF transport[websocket] # "open"
           THEN \* send raises ConnectionClosed: lines 164-167
                /\ response_futures' = Pop(Register(response_futures, id, p), id)
                /\ calls' = [calls EXCEPT ![p] = Finish(call, "CommandFailed")]
                /\ lock' = None
                /\ UNCHANGED outbox
           ELSE /\ response_futures' = Register(response_futures, id, p)
                /\ calls' = [calls EXCEPT ![p] = [call EXCEPT !.pc = "waiting"]]
                /\ lock' = None
                /\ outbox' = [outbox EXCEPT ![websocket] =
                                 Append(@, Request(id, request))]

(* Lines 143-159 for caller p, once it holds the lock.                     *)
Issue(p, request) ==
    LET id == NextId(message_id)
        call == [calls[p] EXCEPT !.request = request, !.msg_id = id, !.fut = "pending"]
    IN  /\ message_id' = id
        /\ IF websocket = None
           THEN \* self._websocket.send on None: AttributeError, caught by no clause
                /\ response_futures' = Register(response_futures, id, p)
                /\ calls' = [calls EXCEPT ![p] = Finish(call, "AttributeError")]
                /\ lock' = None
                /\ UNCHANGED outbox
           ELSE IF transport[websocket] # "open"
           THEN \* send raises ConnectionClosed: lines 164-167
                /\ response_futures' = Pop(Register(response_futures, id, p), id)
                /\ calls' = [calls EXCEPT ![p] = Finish(call, "CommandFailed")]
                /\ lock' = None
                /\ UNCHANGED outbox
           ELSE /\ response_futures' = Register(response_futures, id, p)
                /\ calls' = [calls EXCEPT ![p] = [call EXCEPT !.pc = "waiting"]]
                /\ lock' = p
                /\ outbox' = [outbox EXCEPT ![websocket] =
                                 Append(@, Request(id, request))]

(* A variant without the check of lines 138-140.                           *)
Invoke_Unchecked(p, request) ==
    /\ calls[p].pc = "idle"
    /\ IF lock = None /\ lockWaiters = <<>>
       THEN Issue(p, request) /\ UNCHANGED lockWaiters
       ELSE /\ calls' = [calls EXCEPT ![p] =
                            [@ EXCEPT !.request = request, !.pc = "lockwait"]]
            /\ lockWaiters' = Append(lockWaiters, p)
            /\ UNCHANGED <<message_id, response_futures, lock, outbox>>
    /\ UNCHANGED history
    /\ UNCHANGED <<websocket, task, state_callback, error_callback, transport,
                   listen, inbox, numConns, connecting, dpc,
                   callbackLogs, peerVars>>

Invoke(p, request) ==
    /\ calls[p].pc = "idle"
    /\ IF websocket = None
       THEN \* lines 138-140
            /\ calls' = [calls EXCEPT ![p] =
                            Finish([@ EXCEPT !.request = request], "NotConnected")]
            /\ UNCHANGED <<message_id, response_futures, lockVars, outbox>>
       ELSE IF lock = None /\ lockWaiters = <<>>
       THEN Issue(p, request) /\ UNCHANGED lockWaiters
       ELSE /\ calls' = [calls EXCEPT ![p] =
                            [@ EXCEPT !.request = request, !.pc = "lockwait"]]
            /\ lockWaiters' = Append(lockWaiters, p)
            /\ UNCHANGED <<message_id, response_futures, lock, outbox>>
    /\ UNCHANGED history
    /\ UNCHANGED <<websocket, task, state_callback, error_callback, transport,
                   listen, inbox, numConns, connecting, dpc,
                   callbackLogs, peerVars>>

(* A queued caller is handed the released lock, in FIFO order.             *)
LockAcquired(p) ==
    /\ calls[p].pc = "lockwait"
    /\ lock = None
    /\ lockWaiters # <<>>
    /\ Head(lockWaiters) = p
    /\ lockWaiters' = Tail(lockWaiters)
    /\ Issue(p, calls[p].request)
    /\ UNCHANGED history
    /\ UNCHANGED <<websocket, task, state_callback, error_callback, transport,
                   listen, inbox, numConns, connecting, dpc,
                   callbackLogs, peerVars>>

(* ApiClientError (lines 22-23) is a plain Exception constructed from the  *)
(* message alone (line 100): it has no code.  Raised(call) is the          *)
(* exception a call raises from a future that holds one.                   *)
ApiClientError(message) == [message |-> message, code |-> None]

Raised(call) == ApiClientError(call.text)

(* How a finished future leaves wait_for (line 159).                       *)
OutcomeOf(fut) ==
    CASE fut = "result" -> "result"
      [] fut = "exception" -> "ApiClientError"
      [] fut = "cancelled" -> "Cancelled"

(* The caller resumes from wait_for with the future done.                  *)
Resume(p) ==
    /\ calls[p].pc = "waiting"
    /\ calls[p].fut \in {"result", "exception", "cancelled"}
    /\ calls' = [calls EXCEPT ![p] = Finish(@, OutcomeOf(@.fut))]
    /\ lock' = None
    /\ UNCHANGED history
    /\ UNCHANGED <<clientFields, lockWaiters, response_futures, connVars, dpc,
                   callbackLogs, peerVars>>

(* A variant of the cleanup below that leaves the registry as it is.       *)
TimeoutCleanup_Keeps(futures, id) == futures

(* Lines 160-163: the 10 s deadline passes with the future still pending.  *)
TimeoutCleanup(futures, id) == IF id \in DOMAIN futures THEN Pop(futures, id) ELSE futures

Timeout(p) ==
    /\ calls[p].pc = "waiting"
    /\ calls[p].fut = "pending"
    /\ response_futures' = TimeoutCleanup(response_futures, calls[p].msg_id)
    /\ calls' = [calls EXCEPT ![p] = Finish([@ EXCEPT !.fut = "cancelled"], "Timeout")]
    /\ lock' = None
    /\ UNCHANGED history
    /\ UNCHANGED <<clientFields, lockWaiters, connVars, dpc,
                   callbackLogs, peerVars>>

(***************************************************************************)
(* disconnect(), api.py lines 60-76.  It suspends at "await self._task"    *)
(* (line 65, when the task was still running) and at                       *)
(* "await self._websocket.close()" (line 69).                              *)
(***************************************************************************)
CancelAll(cs, futures) ==
    [p \in Callers |->
        IF (\E i \in DOMAIN futures : futures[i] = p) /\ cs[p].fut = "pending"
        THEN [cs[p] EXCEPT !.fut = "cancelled"]
        ELSE cs[p]]

(* A variant of lines 72-76 that cancels the futures without clearing the  *)
(* registry.                                                               *)
ClearFutures_CancelOnly ==
    /\ calls' = CancelAll(calls, response_futures)
    /\ UNCHANGED response_futures

(* Lines 72-76.                                                            *)
ClearFutures ==
    /\ calls' = CancelAll(calls, response_futures)
    /\ response_futures' = <<>>

(* Lines 68-76, entered with the task already dealt with.                  *)
CloseAndClear ==
    IF websocket # None
    THEN /\ transport' = [transport EXCEPT ![websocket] =
                             IF @ = "open" THEN "closed" ELSE @]
         /\ inbox' = [inbox EXCEPT ![websocket] = <<>>]
         /\ dpc' = "awaitClose"
         /\ UNCHANGED <<websocket, calls, response_futures>>
    ELSE /\ ClearFutures
         /\ dpc' = "idle"
         /\ UNCHANGED <<websocket, transport, inbox>>

InFlight ==
    {p \in Callers : \/ calls[p].pc = "lockwait"
                     \/ calls[p].pc = "waiting" /\ calls[p].fut = "pending"}

Disconnect ==
    /\ dpc = "idle"
    /\ doomed' = doomed \cup InFlight
    /\ UNCHANGED reusedFrom
    /\ IF task # None /\ listen[task] = "running"
       THEN \* lines 62-65: cancel the task and wait for it
            /\ listen' = [listen EXCEPT ![task] = "cancelled"]
            /\ dpc' = "awaitTask"
            /\ UNCHANGED <<task, websocket, transport, inbox, calls, response_futures>>
       ELSE /\ task' = None
            /\ CloseAndClear
            /\ UNCHANGED listen
    /\ UNCHANGED <<message_id, state_callback, error_callback, lockVars, outbox,
                   numConns, connecting, callbackLogs, peerVars>>

DisconnectTaskDone ==
    /\ dpc = "awaitTask"
    /\ task' = None
    /\ CloseAndClear
    /\ UNCHANGED history
    /\ UNCHANGED <<message_id, state_callback, error_callback, lockVars, listen,
                   outbox, numConns, connecting, callbackLogs,
                   peerVars>>

DisconnectClosed ==
    /\ dpc = "awaitClose"
    /\ websocket' = None
    /\ ClearFutures
    /\ dpc' = "idle"
    /\ UNCHANGED history
    /\ UNCHANGED <<task, message_id, state_callback, error_callback, lockVars,
                   connVars, callbackLogs, peerVars>>


(***************************************************************************)
(* _listen, api.py lines 118-132: one step per frame read by the           *)
(* "async for", with _handle_message (lines 86-116) applied to it.         *)
(***************************************************************************)
(* A variant that marks the future done without storing the result.       *)
Resolve_DropsValue(cs, futures, effect) ==
    IF effect.popped = None \/ effect.resolve = "none" THEN cs
    ELSE [cs EXCEPT ![futures[effect.popped]] =
             [@ EXCEPT !.fut = effect.resolve, !.text = effect.text]]

Resolve(cs, futures, effect) ==
    IF effect.popped = None \/ effect.resolve = "none" THEN cs
    ELSE [cs EXCEPT ![futures[effect.popped]] =
             [@ EXCEPT !.fut = effect.resolve, !.value = effect.value,
                       !.text = effect.text]]

(* A variant that keeps calling the handler that was registered first.     *)
Notify_FirstHandler(log, handler, arg) == Append(log, <<1, arg>>)

(* Lines 107-110: the handler held by the slot is called with the argument. *)
Notify(log, handler, arg) == Append(log, <<handler, arg>>)

(* Lines 129-132: str(err) handed to the error callback, if one is set.    *)
ReportError(log, text) ==
    IF error_callback # None THEN Append(log, <<error_callback, text>>) ELSE log

ListenMessage(c) ==
    /\ listen[c] = "running"
    /\ inbox[c] # <<>>
    /\ LET message == Head(inbox[c])
           effect == HandleMessage(message, Tracked, state_callback, error_callback)
           errors == IF effect.cb = "error"
                     THEN Notify(errorCalls, error_callback, effect.text)
                     ELSE errorCalls
       IN  /\ inbox' = [inbox EXCEPT ![c] = Tail(@)]
           /\ response_futures' =
                  IF effect.popped # None THEN Pop(response_futures, effect.popped)
                  ELSE response_futures
           /\ calls' = Resolve(calls, response_futures, effect)
           /\ stateCalls' = IF effect.cb = "state"
                            THEN Notify(stateCalls, state_callback, effect.arg)
                            ELSE stateCalls
           /\ IF effect.exc \in Caught \cup {"none"}
              THEN /\ errorCalls' = errors
                   /\ UNCHANGED listen
              ELSE /\ errorCalls' = ReportError(errors, effect.exc)
                   /\ listen' = [listen EXCEPT ![c] = "done"]
    /\ UNCHANGED history
    /\ UNCHANGED <<clientFields, lockVars, transport, outbox, numConns,
                   connecting, dpc, peerVars>>

(* A variant in which the loop, on its way out, cancels the pending calls  *)
(* and clears the registry.                                                *)
ListenClosed_ClearsRegistry(c) ==
    /\ listen[c] = "running"
    /\ transport[c] \in {"closedOK", "closedError", "closed"}
    /\ inbox[c] = <<>>
    /\ listen' = [listen EXCEPT ![c] = "done"]
    /\ errorCalls' = IF transport[c] = "closedError"
                     THEN ReportError(errorCalls, "Connection closed")
                     ELSE errorCalls
    /\ calls' = CancelAll(calls, response_futures)
    /\ response_futures' = <<>>
    /\ UNCHANGED history
    /\ UNCHANGED <<clientFields, lockVars, transport, inbox,
                   outbox, numConns, connecting, dpc,
                   stateCalls, peerVars>>

(* The iteration ends: ConnectionClosed on an abnormal close (lines        *)
(* 126-128), plain exhaustion of the iterator on a clean one.              *)
ListenClosed(c) ==
    /\ listen[c] = "running"
    /\ transport[c] \in {"closedOK", "closedError", "closed"}
    /\ inbox[c] = <<>>
    /\ listen' = [listen EXCEPT ![c] = "done"]
    /\ errorCalls' = IF transport[c] = "closedError"
                     THEN ReportError(errorCalls, "Connection closed")
                     ELSE errorCalls
    /\ UNCHANGED history
    /\ UNCHANGED <<clientFields, lockVars, response_futures, transport, inbox,
                   outbox, numConns, connecting, calls, dpc,
                   stateCalls, peerVars>>

(***************************************************************************)
(* The peer.  An arbitrary peer may write any frame; the reference peer    *)
(* (handle_client, dummy_server.py lines 59-207) answers the requests it   *)
(* reads.  Either may close the transport.                                 *)
(***************************************************************************)
SupportedTypes == <<"video", "music", "url">>
SampleState == StateParams(Snapshot("playing", "u1", "music", 12, 5))

(* The result the arbitrary peer puts in a Response carrying id i.         *)
ResultOf(i) ==
    CASE i = 1 -> JList(SupportedTypes)
      [] i = 2 -> JTrue
      [] OTHER -> JObj(SampleState.snap)

PeerFrames ==
    UNION {{Response(i, ResultOf(i)),
            ErrorResponse(i, -32601, "Method not found"),
            ErrorNoMessage(i), IdOnly(i)} : i \in Ids}
    \cup {Notification("stateChanged", SampleState),
          AsBytes(Notification("stateChanged", SampleState)),
          Notification("error", MessageParams("boom")),
          Notification("progress", EmptyParams),
          NoParams("stateChanged"),
          BadBytes, NotJson, JsonNumber, JsonNull,
          JsonString({}), JsonString({"id"}), JsonList({}), JsonList({"method"}),
          BareObject}

PeerSend(c, frame) ==
    /\ transport[c] = "open"
    /\ framesSent < MaxFrames
    /\ inbox[c] = <<>>
    /\ inbox' = [inbox EXCEPT ![c] = Append(@, frame)]
    /\ framesSent' = framesSent + 1
    /\ UNCHANGED history
    /\ UNCHANGED <<clientFields, lockVars, response_futures, transport, listen,
                   outbox, numConns, connecting, calls, dpc,
                   callbackLogs, player, served>>

PeerClose(c, how) ==
    /\ transport[c] = "open"
    /\ transport' = [transport EXCEPT ![c] = how]
    /\ UNCHANGED history
    /\ UNCHANGED <<clientFields, lockVars, response_futures, listen, inbox,
                   outbox, numConns, connecting, calls, dpc,
                   callbackLogs, peerVars>>


(* DummyMediaPlayer.get_state, dummy_server.py lines 33-56: the position   *)
(* advances by the time elapsed while playing, capped at the duration.     *)
Elapsed == {0, 150}

Advance(pl, elapsed) ==
    IF pl.state = "playing"
    THEN [pl EXCEPT !.position = Min(pl.position + elapsed, Duration)]
    ELSE pl

PlayerState(pl) == Snapshot(pl.state, pl.media_url, pl.media_type, pl.position, pl.volume)

(* The assignments each method makes before answering (lines 98-173).      *)
Mutating == {"play", "pause", "stop", "setVolume", "load"}

Mutate(pl, request) ==
    CASE request.method = "play" -> [pl EXCEPT !.state = "playing"]
      [] request.method = "pause" -> [pl EXCEPT !.state = "paused"]
      [] request.method = "stop" -> [pl EXCEPT !.state = "idle", !.position = 0]
      [] request.method = "setVolume" -> [pl EXCEPT !.volume = request.args.level]
      [] request.method = "load" ->
            [pl EXCEPT !.media_url = request.args.url,
                       !.media_type = IF request.args.options
                                      THEN request.args.media_type ELSE "url",
                       !.position = IF request.args.options
                                    THEN request.args.startPosition ELSE 0,
                       !.state = IF request.args.options /\ request.args.autoplay = "false"
                                 THEN "paused" ELSE "playing"]
      [] OTHER -> pl

(* A variant that sends the push before the Response.                      *)
Answer_PushFirst(request, pl) ==
    CASE request.method = "getState" -> <<Response(request.id, JObj(PlayerState(pl)))>>
      [] request.method = "getSupportedMediaTypes" ->
            <<Response(request.id, JList(SupportedTypes))>>
      [] request.method \in Mutating ->
            <<Notification("stateChanged", StateParams(PlayerState(pl))),
              Response(request.id, JTrue)>>
      [] OTHER -> <<ErrorResponse(request.id, -32601, "Method not found")>>

(* The frames handle_client sends for one request, given the player after  *)
(* the method's assignments and after get_state's update.                  *)
Answer(request, pl) ==
    CASE request.method = "getState" -> <<Response(request.id, JObj(PlayerState(pl)))>>
      [] request.method = "getSupportedMediaTypes" ->
            <<Response(request.id, JList(SupportedTypes))>>
      [] request.method \in Mutating ->
            <<Response(request.id, JTrue),
              Notification("stateChanged", StateParams(PlayerState(pl)))>>
      [] OTHER -> <<ErrorResponse(request.id, -32601, "Method not found")>>

ReadsState == Mutating \cup {"getState"}

(* params["level"] (line 148) and params["url"] (line 164) raise KeyError   *)
(* when the key is missing; handle_client catches JSONDecodeError and      *)
(* ConnectionClosed only, so the handler ends and the server closes the    *)
(* connection with an internal-error close frame.                          *)
HandlerRaises(request) ==
    \/ request.method = "setVolume" /\ "level" \notin request.args.keys
    \/ request.method = "load" /\ "url" \notin request.args.keys

RefPeerServe(c) ==
    /\ transport[c] = "open"
    /\ served[c] < Len(outbox[c])
    /\ LET request == outbox[c][served[c] + 1]
       IN  IF HandlerRaises(request)
           THEN /\ transport' = [transport EXCEPT ![c] = "closedError"]
                /\ UNCHANGED <<player, inbox>>
           ELSE /\ \E elapsed \in Elapsed :
                       LET pl == IF request.method \in ReadsState
                                 THEN Advance(Mutate(player[c], request), elapsed)
                                 ELSE player[c]
                       IN  /\ player' = [player EXCEPT ![c] = pl]
                           /\ inbox' = [inbox EXCEPT ![c] = @ \o Answer(request, pl)]
                /\ UNCHANGED transport
    /\ served' = [served EXCEPT ![c] = @ + 1]
    /\ UNCHANGED history
    /\ UNCHANGED <<clientFields, lockVars, response_futures, listen,
                   outbox, numConns, connecting, calls, dpc,
                   callbackLogs, framesSent>>

(***************************************************************************)
(* Specifications.                                                         *)
(*   Spec      one connection of the session against an arbitrary peer,    *)
(*             which may write any frame of PeerFrames                     *)
(*   SpecLife  the lifecycle of the session: up to MaxConns connections,   *)
(*             concurrent and failing connect() invocations, the peer      *)
(*             closing the transport; the reference peer answers           *)
(*   SpecRef   every facade request on one connection to the reference     *)
(*             peer                                                        *)
(*   SpecPeer  the reference peer reading request frames whose params the  *)
(*             caller of _send_command chose, a required key missing       *)
(*             among them                                                  *)
(***************************************************************************)
SpecRequests == {get_supported_media_types}

Calls(requests) ==
    \/ \E p \in Callers, request \in requests : Invoke(p, request)
    \/ \E p \in Callers : LockAcquired(p)
    \/ \E p \in Callers : Resume(p)
    \/ \E p \in Callers : Timeout(p)

Connection(limit) ==
    \/ ConnectBegin(limit)
    \/ ConnectDone
    \/ Disconnect
    \/ DisconnectTaskDone
    \/ DisconnectClosed
    \/ \E c \in Conns : ListenMessage(c)

Closing ==
    \/ ConnectNoop
    \/ ConnectFail
    \/ \E c \in Conns : ListenClosed(c)
    \/ \E c \in Conns, how \in {"closedOK", "closedError"} : PeerClose(c, how)

StateCallbacks == \E h \in Handlers : SetStateCallback(h)

ErrorCallbacks == \E h \in Handlers : SetErrorCallback(h)

Next ==
    \/ Connection(1)
    \/ StateCallbacks
    \/ ErrorCallbacks
    \/ Calls(SpecRequests)
    \/ \E c \in Conns, frame \in PeerFrames : PeerSend(c, frame)

Spec == Init /\ [][Next]_vars

NextLife ==
    \/ Connection(MaxConns)
    \/ Closing
    \/ ErrorCallbacks
    \/ Calls(SpecRequests)
    \/ \E c \in Conns : RefPeerServe(c)

SpecLife == Init /\ [][NextLife]_vars

NextRef ==
    \/ Connection(1)
    \/ StateCallbacks
    \/ Calls(FacadeRequests)
    \/ \E c \in Conns : RefPeerServe(c)

SpecRef == Init /\ [][NextRef]_vars

(* _send_command(method, params) writes the params mapping it is given     *)
(* (lines 145-151); the facade is one caller of it.                        *)
PeerRequests ==
    {get_state, seek(150), set_volume(3), Req("setVolume", NoArg), Req("load", NoArg)}

NextPeer ==
    \/ Connection(1)
    \/ Calls(PeerRequests)
    \/ \E c \in Conns : ListenClosed(c)
    \/ \E c \in Conns : RefPeerServe(c)

SpecPeer == Init /\ [][NextPeer]_vars

(***************************************************************************)
(* The connection test of the config flow, config_flow.py lines 73-78: a   *)
(* fresh session, connect(), get_state(), disconnect(), one after the      *)
(* other in one try block whose except clauses (lines 84-88) set an error  *)
(* and fall through to the form.  Caller 1 is the flow step; how far it    *)
(* has come is read from the session: not yet connected, connected with    *)
(* get_state not yet called, get_state returned or raised.                 *)
(***************************************************************************)
FlowConnect == numConns = 0 /\ connecting = 0 /\ ConnectBegin(1)

FlowGetState == connecting = 0 /\ dpc = "idle" /\ websocket # None /\ Invoke(1, get_state)

(* Line 78 is reached only when get_state returned.                        *)
FlowDisconnect ==
    /\ calls[1].pc = "done" /\ calls[1].outcome = "result"
    /\ websocket # None
    /\ Disconnect

(* The step has returned: with the entry once disconnect() has returned    *)
(* (lines 80-83), or with the form once get_state has raised (lines 84-94).*)
FlowReturned ==
    \/ /\ calls[1].pc = "done" /\ calls[1].outcome = "result"
       /\ websocket = None /\ dpc = "idle"
    \/ calls[1].pc = "done" /\ calls[1].outcome # "result"

NextFlow ==
    \/ FlowConnect
    \/ ConnectDone
    \/ ConnectFail
    \/ FlowGetState
    \/ Resume(1)
    \/ Timeout(1)
    \/ FlowDisconnect
    \/ DisconnectTaskDone
    \/ DisconnectClosed
    \/ \E c \in Conns : ListenMessage(c)
    \/ \E c \in Conns : ListenClosed(c)
    \/ \E c \in Conns, frame \in PeerFrames : PeerSend(c, frame)
    \/ \E c \in Conns, how \in {"closedOK", "closedError"} : PeerClose(c, how)

SpecFlow == Init /\ [][NextFlow]_vars

(***************************************************************************)
(* Shapes of inbound frames, as the properties below name them.            *)
(***************************************************************************)
IsObject(f) == f.enc # "badbytes" /\ f.json = "obj"

IsResultResponse(f) ==
    /\ IsObject(f)
    /\ "id" \in f.has /\ f.idt = "int"
    /\ "result" \in f.has /\ "error" \notin f.has

IsStateChanged(f) ==
    /\ IsObject(f)
    /\ "id" \notin f.has
    /\ "method" \in f.has /\ f.method = "stateChanged"
    /\ "params" \in f.has

(* Not valid UTF-8, not valid JSON, not an object, or neither id nor method *)
Undecodable(f) ==
    \/ f.enc = "badbytes"
    \/ f.json # "obj"
    \/ "id" \notin f.has /\ "method" \notin f.has

Reading(c) == listen[c] = "running" /\ inbox[c] # <<>>

(***************************************************************************)
(* C1.  When the receive loop processes a Response that carries a result   *)
(* and the id of a call still waiting for it, that call's future gets      *)
(* exactly that result, no other call changes, its id leaves the registry, *)
(* and no callback is invoked; the call then returns that same value and   *)
(* nothing else.                                                           *)
(***************************************************************************)
C1_ResponseReturnsItsResult ==
    [][ /\ \A c \in Conns :
              (/\ Reading(c)
               /\ IsResultResponse(Head(inbox[c]))
               /\ Head(inbox[c]).id \in Tracked
               /\ calls[response_futures[Head(inbox[c]).id]].pc = "waiting"
               /\ ListenMessage(c))
              => LET f == Head(inbox[c])
                     p == response_futures[f.id]
                 IN  /\ calls'[p].fut = "result"
                     /\ calls'[p].value = f.result
                     /\ \A q \in Callers \ {p} : calls'[q] = calls[q]
                     /\ DOMAIN response_futures' = Tracked \ {f.id}
                     /\ UNCHANGED callbackLogs
        /\ \A p \in Callers :
              (calls[p].pc = "waiting" /\ calls[p].fut = "result")
              => \/ calls'[p] = calls[p]
                 \/ /\ calls'[p].pc = "done"
                    /\ calls'[p].outcome = "result"
                    /\ calls'[p].value = calls[p].value
      ]_vars

C1_Witness ==
    \E p \in Callers :
        /\ calls[p].pc = "done"
        /\ calls[p].outcome = "result"
        /\ calls[p].request = get_supported_media_types
        /\ calls[p].value = JList(SupportedTypes)

C3_IdsStrictlyIncrease ==
    [][ \A p \in Callers :
            /\ (calls[p].msg_id = None /\ calls'[p].msg_id # None)
               => /\ calls'[p].msg_id >= 1
                  /\ calls'[p].msg_id > message_id
                  /\ message_id' = calls'[p].msg_id
                  /\ \A q \in Callers \ {p} : calls'[p].msg_id > calls[q].msg_id
            /\ calls[p].msg_id # None
               => /\ calls'[p].msg_id = calls[p].msg_id
                  /\ calls[p].msg_id <= message_id
                  /\ message_id' >= message_id
      ]_vars

(* Ids allocated on two connections of the same instance, the first of     *)
(* which disconnect() closed.                                              *)
C3_Witness ==
    \E p, q \in Callers :
        /\ calls[p].msg_id = 1 /\ calls[q].msg_id = 2
        /\ transport[1] = "closed"
        /\ Len(outbox[1]) = 1 /\ Len(outbox[2]) = 1
        /\ outbox[2][1].id = 2

(***************************************************************************)
(* C4.  A call waiting on a pending future can always time out, and a call *)
(* that failed with Timeout has returned, holds no lock, and its id is not *)
(* tracked by the registry.                                                *)
(***************************************************************************)
C4_TimedOutCallUntracked ==
    \A p \in Callers :
        /\ (calls[p].pc = "waiting" /\ calls[p].fut = "pending") => ENABLED Timeout(p)
        /\ calls[p].outcome = "Timeout"
           => /\ calls[p].pc = "done"
              /\ calls[p].msg_id \notin Tracked
              /\ lock # p

C4_Witness ==
    \E p \in Callers :
        /\ calls[p].outcome = "Timeout"
        /\ calls[p].msg_id = 1
        /\ websocket # None

(***************************************************************************)
(* C5.  Every call that was in flight (awaiting the lock or its future)    *)
(* when disconnect() was invoked fails with Cancelled -- allowing here for *)
(* a deadline that elapses first and for a write refused by the closing    *)
(* transport.                                                              *)
(***************************************************************************)
C5_InFlightCallsCancelled ==
    \A p \in doomed :
        calls[p].pc = "done"
        => calls[p].outcome \in {"Cancelled", "Timeout", "CommandFailed"}

(***************************************************************************)
(* C6.  disconnect() on an unconnected session returns at once, leaving    *)
(* no transport, no task and an empty registry and touching nothing else   *)
(* (nothing at all when the registry was already empty); and every         *)
(* disconnect() that returns leaves no transport and an empty registry.    *)
(***************************************************************************)
C6_DisconnectIdempotent ==
    [][ /\ (dpc = "idle" /\ websocket = None /\ task = None /\ Disconnect)
           => /\ dpc' = "idle"
              /\ websocket' = None /\ task' = None
              /\ DOMAIN response_futures' = {}
              /\ UNCHANGED <<message_id, state_callback, error_callback, lockVars,
                             connVars, callbackLogs>>
              /\ Tracked = {} => calls' = calls
        /\ (dpc' = "idle" /\ (dpc # "idle" \/ Disconnect))
           => /\ websocket' = None
              /\ DOMAIN response_futures' = {}
      ]_vars

(* A session that was connected and on which disconnect() has returned:    *)
(* a further disconnect() starts from this state.                          *)
C6_Witness ==
    /\ numConns >= 1 /\ transport[1] = "closed"
    /\ dpc = "idle"
    /\ websocket = None /\ task = None /\ Tracked = {}
    /\ ENABLED Disconnect

(***************************************************************************)
(* C7.  When the receive loop processes a stateChanged Notification (an    *)
(* object with method and params and no id) while a state handler is       *)
(* registered, that handler is invoked exactly once with the frame's       *)
(* params; the registry, every call, the error handler's invocations and   *)
(* the loop itself are left as they were.                                  *)
(***************************************************************************)
C7_StateChangedInvokesHandlerOnce ==
    [][ \A c \in Conns :
            (/\ Reading(c)
             /\ IsStateChanged(Head(inbox[c]))
             /\ state_callback # None
             /\ ListenMessage(c))
            => /\ stateCalls' = Append(stateCalls, <<state_callback, Head(inbox[c]).params>>)
               /\ UNCHANGED <<response_futures, calls, errorCalls, listen>>
      ]_vars

(* The handler has been invoked with the snapshot while a call is pending. *)
C7_Witness ==
    /\ Len(stateCalls) = 1
    /\ stateCalls[1][2] = SampleState
    /\ \E p \in Callers :
          /\ calls[p].pc = "waiting" /\ calls[p].fut = "pending"
          /\ calls[p].msg_id \in Tracked

(***************************************************************************)
(* C8.  For a state-mutating request the reference peer writes the success *)
(* Response for its id and then exactly one stateChanged push carrying the *)
(* state after the mutation (for setVolume, the requested level).  The     *)
(* client processes that Response first, with the push still queued behind *)
(* it: the waiting call is resolved with true and no handler fires; it     *)
(* then processes the push, and the registered state handler fires exactly *)
(* once, with that state.                                                  *)
(***************************************************************************)
IsPush(f, snap) == f = Notification("stateChanged", StateParams(snap))

C8_MutationAnsweredThenPushed ==
    [][ \A c \in Conns :
          /\ (/\ served[c] < Len(outbox[c])
              /\ outbox[c][served[c] + 1].method \in Mutating
              /\ RefPeerServe(c))
             => LET request == outbox[c][served[c] + 1]
                    after == PlayerState(player'[c])
                IN  /\ inbox'[c] = inbox[c] \o
                           <<Response(request.id, JTrue),
                             Notification("stateChanged", StateParams(after))>>
                    /\ request.method = "setVolume" => after.volume = request.args.level
                    /\ request.method = "play" => after.state = "playing"
                    /\ request.method = "pause" => after.state = "paused"
                    /\ request.method = "stop" => after.state = "idle"
                    /\ request.method = "load" => after.url = request.args.url
          /\ (/\ Reading(c)
              /\ IsResultResponse(Head(inbox[c]))
              /\ Head(inbox[c]).id \in Tracked
              /\ calls[response_futures[Head(inbox[c]).id]].pc = "waiting"
              /\ calls[response_futures[Head(inbox[c]).id]].request.method \in Mutating
              /\ ListenMessage(c))
             => LET p == response_futures[Head(inbox[c]).id]
                IN  /\ calls'[p].fut = "result" /\ calls'[p].value = JTrue
                    /\ Len(inbox'[c]) >= 1
                    /\ IsStateChanged(Head(inbox'[c]))
                    /\ UNCHANGED callbackLogs
          /\ (/\ Reading(c)
              /\ IsStateChanged(Head(inbox[c]))
              /\ state_callback # None
              /\ ListenMessage(c))
             => /\ stateCalls' =
                       Append(stateCalls, <<state_callback, Head(inbox[c]).params>>)
                /\ UNCHANGED calls
      ]_vars

(* set_volume(3) has returned successfully and the handler has fired once, *)
(* with a state whose volume is 3.                                         *)
C8_Witness ==
    \E p \in Callers :
        /\ calls[p].request = set_volume(3)
        /\ calls[p].pc = "done" /\ calls[p].outcome = "result"
        /\ calls[p].value = JTrue
        /\ Len(stateCalls) = 1
        /\ stateCalls[1][2].snap.volume = 3
        /\ inbox[1] = <<>>

(***************************************************************************)
(* C9.  A call invoked while the session holds no transport fails at once  *)
(* with "Not connected": it allocates no id, registers no future, writes   *)
(* no frame and leaves the lock, the transport and the counter unchanged.  *)
(***************************************************************************)
C9_CallWhenUnconnectedFails ==
    [][ \A p \in Callers :
            (calls[p].pc = "idle" /\ calls'[p].pc # "idle" /\ websocket = None)
            => /\ calls'[p].pc = "done"
               /\ calls'[p].outcome = "NotConnected"
               /\ calls'[p].msg_id = None
               /\ calls'[p].fut = "none"
               /\ UNCHANGED <<websocket, message_id, response_futures, lockVars,
                              transport, outbox>>
      ]_vars

(* A call refused after the session had been connected and disconnected.   *)
C9_Witness ==
    \E p \in Callers :
        /\ calls[p].outcome = "NotConnected"
        /\ numConns = 1 /\ websocket = None
        /\ message_id = 1

(***************************************************************************)
(* C10.  A frame that fails decoding (bytes that are not text, text that   *)
(* is not JSON, JSON that is not an object, an object with neither id nor  *)
(* method) is dropped: the loop keeps running, the registry and every call *)
(* are unchanged and no handler is invoked.                                *)
(***************************************************************************)
C10_UndecodableFrameDropped ==
    [][ \A c \in Conns :
            (Reading(c) /\ Undecodable(Head(inbox[c])) /\ ListenMessage(c))
            => /\ listen'[c] = "running"
               /\ inbox'[c] = Tail(inbox[c])
               /\ UNCHANGED <<response_futures, calls, callbackLogs>>
      ]_vars

(***************************************************************************)
(* C11.  A frame that has an id but neither result nor error is an unknown *)
(* frame shape: processing it resolves no call and leaves the registry     *)
(* tracking that id.                                                       *)
(***************************************************************************)
IsIdOnly(f) ==
    /\ IsObject(f)
    /\ "id" \in f.has /\ f.idt = "int"
    /\ "result" \notin f.has /\ "error" \notin f.has

C11_IdOnlyFrameRejected ==
    [][ \A c \in Conns :
            (/\ Reading(c)
             /\ IsIdOnly(Head(inbox[c]))
             /\ Head(inbox[c]).id \in Tracked
             /\ ListenMessage(c))
            => UNCHANGED <<response_futures, calls>>
      ]_vars

(***************************************************************************)
(* C12.  When the peer has closed the transport, cleanly or not, the       *)
(* receive loop terminates and the registered error handler is invoked     *)
(* exactly once, with a description.                                       *)
(***************************************************************************)
C12_TransportCloseReported ==
    [][ \A c \in Conns :
            (/\ transport[c] \in {"closedOK", "closedError"}
             /\ error_callback # None
             /\ ListenClosed(c))
            => /\ listen'[c] = "done"
               /\ errorCalls' = Append(errorCalls, <<error_callback, "Connection closed">>)
      ]_vars

(***************************************************************************)
(* C13.  Every call that is started completes with exactly one of the      *)
(* outcomes result, RemoteError, Timeout, ConnectionError or Cancelled.    *)
(* Stated here for the calls that have completed: the outcome of a         *)
(* completed call is one of the five (ConnectionError being raised as      *)
(* "Not connected" or as "Command failed").                                *)
(***************************************************************************)
ListedOutcomes ==
    {"result", "ApiClientError", "Timeout", "NotConnected", "CommandFailed", "Cancelled"}

C13_CallsCompleteWithListedOutcome ==
    \A p \in Callers :
        /\ calls[p].pc = "done" => calls[p].outcome \in ListedOutcomes
        /\ calls[p].pc # "done" => calls[p].outcome = "none"

(***************************************************************************)
(* C14.  After disconnect() the session is terminal: on a connection       *)
(* opened by a connect() that was invoked after a disconnect() had         *)
(* returned, no call is sent and answered.                                 *)
(***************************************************************************)
SentOn(c, p) ==
    \E i \in 1..Len(outbox[c]) : outbox[c][i].id = calls[p].msg_id

C14_DisconnectedSessionIsTerminal ==
    reusedFrom # None
    => \A c \in Conns, p \in Callers :
           (c > reusedFrom /\ SentOn(c, p)) => calls[p].outcome # "result"

(***************************************************************************)
(* C15.  connect() on a session that holds a transport is a no-op: while   *)
(* the session holds one, no handshake is started, and a connection is     *)
(* opened only by completing a handshake that was started while the        *)
(* session held none.  This includes a session whose receive loop has      *)
(* ended on a transport error and which has not been disconnected.         *)
(***************************************************************************)
C15_ConnectWhenConnectedIsNoop ==
    [][ websocket # None
        => /\ connecting' <= connecting
           /\ numConns' # numConns
              => /\ numConns' = numConns + 1
                 /\ connecting' = connecting - 1
           /\ (numConns' = numConns /\ connecting' = connecting /\ dpc' = dpc)
              => /\ websocket' = websocket
                 /\ task' = task
                 /\ \A c \in Conns : transport[c] = "none" => transport'[c] = "none"
                 /\ \A c \in Conns : listen[c] = "none" => listen'[c] = "none"
      ]_vars

(* The receive loop has ended on a transport error, disconnect() was not   *)
(* called, and connect() is invoked: it can only return at once.           *)
C15_Witness ==
    /\ websocket # None /\ dpc = "idle"
    /\ transport[websocket] = "closedError"
    /\ listen[websocket] = "done"
    /\ numConns + connecting < MaxConns
    /\ ENABLED ConnectNoop
    /\ ~ENABLED ConnectBegin(MaxConns)

(***************************************************************************)
(* C16.  A call whose Response carried an error object fails with a        *)
(* RemoteError that carries the server's code and message, and no other    *)
(* call fails with it.  The peer's error Responses carry code -32601 and   *)
(* the message "Method not found".                                         *)
(***************************************************************************)
C16_RemoteErrorCarriesCodeAndMessage ==
    \A p \in Callers :
        calls[p].outcome = "ApiClientError"
        => /\ Raised(calls[p]).message = "Method not found"
           /\ Raised(calls[p]).code = -32601

(***************************************************************************)
(* C17.  Each channel holds one handler, the one registered last: a        *)
(* registration replaces the slot's handler, and a step that invokes a     *)
(* channel's handler invokes the handler then held by the slot, once, and  *)
(* no other.  In particular a stateChanged (error) notification processed  *)
(* after h1 and then h2 were registered invokes h2 once and not h1.        *)
(***************************************************************************)
InvokesOnly(log, log2, handler) ==
    \/ log2 = log
    \/ /\ Len(log2) = Len(log) + 1
       /\ SubSeq(log2, 1, Len(log)) = log
       /\ log2[Len(log2)][1] = handler

IsErrorNotification(f) ==
    /\ IsObject(f)
    /\ "id" \notin f.has
    /\ "method" \in f.has /\ f.method = "error"
    /\ "params" \in f.has /\ "message" \in f.params.keys

C17_LastRegistrationWins ==
    [][ /\ \A h \in Handlers : SetStateCallback(h) => state_callback' = h
        /\ \A h \in Handlers : SetErrorCallback(h) => error_callback' = h
        /\ InvokesOnly(stateCalls, stateCalls', state_callback)
        /\ InvokesOnly(errorCalls, errorCalls', error_callback)
        /\ \A c \in Conns :
              (Reading(c) /\ ListenMessage(c))
              => LET f == Head(inbox[c])
                 IN  /\ (IsStateChanged(f) /\ state_callback # None)
                        => stateCalls' = Append(stateCalls, <<state_callback, f.params>>)
                     /\ (IsErrorNotification(f) /\ error_callback # None)
                        => errorCalls' =
                               Append(errorCalls, <<error_callback, f.params.message>>)
      ]_vars

(* h1 and then h2 were registered on both channels; one notification on    *)
(* each channel has since invoked h2 and nothing has invoked h1.           *)
C17_Witness ==
    /\ state_callback = 2 /\ error_callback = 2
    /\ stateCalls = <<<<2, SampleState>>>>
    /\ errorCalls = <<<<2, "boom">>>>

(***************************************************************************)
(* C18.  The reference peer answers every method of the facade (play,      *)
(* pause, stop, load, setVolume, seek, getState, getSupportedMediaTypes)   *)
(* with a success Response and never with the -32601 error, so no facade   *)
(* call fails with a RemoteError.                                          *)
(***************************************************************************)
Recognized ==
    {"play", "pause", "stop", "load", "setVolume", "seek", "getState",
     "getSupportedMediaTypes"}

C18_RecognizedMethodsSucceed ==
    [][ \A c \in Conns :
            (/\ served[c] < Len(outbox[c])
             /\ outbox[c][served[c] + 1].method \in Recognized
             /\ RefPeerServe(c))
            => LET request == outbox[c][served[c] + 1]
                   sent == SubSeq(inbox'[c], Len(inbox[c]) + 1, Len(inbox'[c]))
               IN  /\ Len(sent) >= 1
                   /\ IsResultResponse(sent[1])
                   /\ sent[1].id = request.id
      ]_vars

(***************************************************************************)
(* C19.  While the session is unconnected after a disconnect() has         *)
(* returned and before connect() is invoked again, the registry is empty   *)
(* and the id counter does not advance, whatever calls were invoked or     *)
(* were waiting for the lock when disconnect() ran.                        *)
(***************************************************************************)
C19_UnconnectedRegistryEmpty ==
    [][ Disconnected
        => /\ Tracked = {}
           /\ Disconnected' => (message_id' = message_id /\ DOMAIN response_futures' = {})
      ]_vars

(***************************************************************************)
(* C20.  A future is resolved at most once: once a call's future holds a   *)
(* result, an exception or a cancellation, it keeps it.  And a Response    *)
(* (with a result or an error) whose id the registry does not track -- it  *)
(* arrives after its call timed out, repeats an earlier Response, or       *)
(* carries an id never issued -- is a no-op: the registry, every call and  *)
(* the handlers' invocations are unchanged and the receive loop keeps      *)
(* running.                                                                *)
(***************************************************************************)
IsResponse(f) ==
    /\ IsObject(f)
    /\ "id" \in f.has /\ f.idt = "int"
    /\ "result" \in f.has \/ "error" \in f.has

C20_UntrackedResponseIsNoop ==
    [][ /\ \A p \in Callers :
              calls[p].fut \in {"result", "exception", "cancelled"}
              => /\ calls'[p].fut = calls[p].fut
                 /\ calls'[p].value = calls[p].value
                 /\ calls'[p].text = calls[p].text
        /\ \A c \in Conns :
              (/\ Reading(c)
               /\ IsResponse(Head(inbox[c]))
               /\ Head(inbox[c]).id \notin Tracked
               /\ ListenMessage(c))
              => /\ UNCHANGED <<response_futures, calls, callbackLogs>>
                 /\ listen'[c] = "running"
                 /\ inbox'[c] = Tail(inbox[c])
      ]_vars

(* The Response for id 1 resolved its call, which returned its result; the *)
(* peer has written the same Response again and the running loop is about  *)
(* to process it, id 1 being no longer tracked, while a second call is     *)
(* pending under id 2.                                                     *)
C20_Witness ==
    \E p, q \in Callers :
        /\ calls[p].msg_id = 1 /\ calls[p].outcome = "result"
        /\ calls[p].value = ResultOf(1)
        /\ calls[q].msg_id = 2 /\ calls[q].pc = "waiting" /\ calls[q].fut = "pending"
        /\ Tracked = {2}
        /\ inbox[1] = <<Response(1, ResultOf(1))>>
        /\ listen[1] = "running"
        /\ ENABLED ListenMessage(1)

(***************************************************************************)
(* C21.  When the receive loop ends on a transport error (the transport    *)
(* was closed abnormally and nothing is left to read), it reports the      *)
(* error and changes nothing else: the registry, every call and its        *)
(* future, the transport handle, the task handle and the lock are as they  *)
(* were.  And the session gives up its transport handle only in a step of  *)
(* disconnect().                                                           *)
(***************************************************************************)
C21_LoopExitKeepsSessionConnected ==
    [][ /\ \A c \in Conns :
              (/\ listen[c] = "running" /\ listen'[c] = "done"
               /\ transport[c] = "closedError" /\ inbox[c] = <<>>)
              => UNCHANGED <<response_futures, calls, websocket, task, message_id,
                             lockVars, transport, stateCalls>>
        /\ (websocket # None /\ websocket' = None)
           => dpc = "awaitClose" /\ dpc' = "idle"
      ]_vars

(* The loop has ended on a transport error and has reported it; the        *)
(* session still holds its transport and a call is still pending and       *)
(* tracked.                                                                *)
C21_Witness ==
    \E p \in Callers :
        /\ websocket # None /\ task = websocket /\ dpc = "idle"
        /\ transport[websocket] = "closedError"
        /\ listen[websocket] = "done"
        /\ errorCalls = <<<<1, "Connection closed">>>>
        /\ calls[p].pc = "waiting" /\ calls[p].fut = "pending"
        /\ calls[p].msg_id \in Tracked

(***************************************************************************)
(* C22.  Requests are written in the order in which their calls acquired   *)
(* the lock: a step that writes a frame appends exactly one, on the        *)
(* session's transport; the frame carries the id allocated in that same    *)
(* step by the call that took the lock in it, and that id is greater than  *)
(* the id of every frame written before.  So the ids of the frames written *)
(* on one connection increase strictly in write order.                     *)
(***************************************************************************)
IdsIncrease(frames) ==
    \A i, j \in 1..Len(frames) : i < j => frames[i].id < frames[j].id

C22_FramesWrittenInLockOrder ==
    [][ /\ \A c \in Conns : IdsIncrease(outbox[c])
        /\ \A c \in Conns :
              outbox'[c] # outbox[c]
              => /\ c = websocket
                 /\ lock = None /\ lock' \in Callers
                 /\ calls[lock'].pc \in {"idle", "lockwait"}
                 /\ calls'[lock'].pc = "waiting"
                 /\ calls'[lock'].msg_id = message_id'
                 /\ message_id' > message_id
                 /\ outbox'[c] = Append(outbox[c],
                                        Request(message_id', calls'[lock'].request))
                 /\ IdsIncrease(outbox'[c])
                 /\ \A d \in Conns \ {c} : outbox'[d] = outbox[d]
      ]_vars

(* Two calls were invoked concurrently; both frames are on the transport,  *)
(* the first caller's first.                                               *)
C22_Witness ==
    \E p, q \in Callers :
        /\ p # q
        /\ doomed = {} /\ numConns = 1
        /\ Len(outbox[1]) = 2
        /\ outbox[1][1].id = calls[p].msg_id /\ outbox[1][2].id = calls[q].msg_id
        /\ calls[p].msg_id = 1 /\ calls[q].msg_id = 2
        /\ calls[q].pc = "waiting"

(***************************************************************************)
(* C23.  A Notification (an object with a method and no id) whose method   *)
(* is neither stateChanged nor error is dropped: no handler is invoked, no *)
(* call is resolved, the registry is unchanged and the receive loop goes   *)
(* on to the next frame.                                                   *)
(***************************************************************************)
IsUnknownNotification(f) ==
    /\ IsObject(f)
    /\ "id" \notin f.has
    /\ "method" \in f.has /\ f.method \notin {"stateChanged", "error"}

C23_UnknownNotificationDropped ==
    [][ \A c \in Conns :
            (/\ Reading(c)
             /\ IsUnknownNotification(Head(inbox[c]))
             /\ ListenMessage(c))
            => /\ UNCHANGED <<response_futures, calls, callbackLogs>>
               /\ listen'[c] = "running"
               /\ inbox'[c] = Tail(inbox[c])
      ]_vars

(* Both handlers are registered and a call is pending; the running loop is *)
(* about to process a "progress" notification.                             *)
C23_Witness ==
    \E p \in Callers :
        /\ state_callback # None /\ error_callback # None
        /\ calls[p].pc = "waiting" /\ calls[p].fut = "pending"
        /\ calls[p].msg_id \in Tracked
        /\ inbox[1] = <<Notification("progress", EmptyParams)>>
        /\ listen[1] = "running"
        /\ ENABLED ListenMessage(1)

(***************************************************************************)
(* C24.  For every request it reads, the reference peer sends exactly one  *)
(* frame that carries an id, and it carries the request's id; for a method *)
(* it has no branch for, that frame is the error -32601, nothing else is   *)
(* sent and the player is unchanged.                                       *)
(***************************************************************************)
PeerMethods == Mutating \cup {"getState", "getSupportedMediaTypes"}

C24_OneResponsePerRequest ==
    [][ \A c \in Conns :
            (served[c] < Len(outbox[c]) /\ RefPeerServe(c))
            => LET request == outbox[c][served[c] + 1]
                   sent == SubSeq(inbox'[c], Len(inbox[c]) + 1, Len(inbox'[c]))
                   answers == {i \in 1..Len(sent) : "id" \in sent[i].has}
               IN  /\ SubSeq(inbox'[c], 1, Len(inbox[c])) = inbox[c]
                   /\ Cardinality(answers) = 1
                   /\ \A i \in answers : sent[i].id = request.id /\ sent[i].idt = "int"
                   /\ request.method \notin PeerMethods
                      => /\ sent = <<ErrorResponse(request.id, -32601, "Method not found")>>
                         /\ player' = player
      ]_vars

(***************************************************************************)
(* C25.  Calls on one session are serialized end to end: at most one call  *)
(* is awaiting its response, and while one is, no step writes a request    *)
(* frame to any transport.                                                 *)
(***************************************************************************)
Awaiting == {p \in Callers : calls[p].pc = "waiting"}

C25_CallsSerialized ==
    [][ /\ Cardinality(Awaiting) <= 1
        /\ Cardinality(Awaiting)' <= 1
        /\ Awaiting # {} => outbox' = outbox
      ]_vars

(* One call has written its frame and awaits the response while a second   *)
(* call, invoked meanwhile, is held at the lock with nothing written.      *)
C25_Witness ==
    \E p, q \in Callers :
        /\ p # q
        /\ calls[p].pc = "waiting" /\ calls[p].fut = "pending"
        /\ calls[q].pc = "lockwait"
        /\ websocket # None
        /\ Len(outbox[websocket]) = 1
        /\ outbox[websocket][1].id = calls[p].msg_id

(***************************************************************************)
(* C26.  Whatever the interleaving of connect() invocations on the         *)
(* session, at most one transport is open and at most one receive-loop     *)
(* task is running.                                                        *)
(***************************************************************************)
LiveTransports == {c \in Conns : transport[c] = "open"}
LiveTasks == {c \in Conns : listen[c] = "running"}

C26_AtMostOneLiveTransport ==
    /\ Cardinality(LiveTransports) <= 1
    /\ Cardinality(LiveTasks) <= 1

(***************************************************************************)
(* C27.  Whenever a step of the receive loop removes an entry from the     *)
(* registry, the call that owns the entry is resolved in the same step,    *)
(* with a result or with an error.                                         *)
(***************************************************************************)
C27_RemovedEntryIsResolved ==
    [][ \A c \in Conns :
            ListenMessage(c)
            => \A p \in Callers :
                   (/\ calls[p].pc = "waiting"
                    /\ calls[p].msg_id \in Tracked
                    /\ calls[p].msg_id \notin Tracked')
                   => calls'[p].fut \in {"result", "exception"}
      ]_vars

(***************************************************************************)
(* C28.  When the config flow's connection test has returned, whether      *)
(* get_state returned, timed out or failed, no transport of its session is *)
(* open and no receive-loop task is running.                               *)
(***************************************************************************)
C28_FlowLeavesNothingLive ==
    FlowReturned => LiveTransports = {} /\ LiveTasks = {}

=============================================================================
